---- MODULE Spec2Model ----
(***************************************************************************)
(* A model of the cube-assembly pipeline of ocsmit/cube:                   *)
(*   - cube/download.py and cubed/download.py: get_links,                  *)
(*     construct_file_df, generate_cube, band_stack;                       *)
(*   - cubed/date_glob.py: the date_glob pattern builder;                  *)
(*   - cubed/nc.py: dir_to_xarr;                                           *)
(*   - cubed/utils.py: parse_bandmap, inv_bandmap;                         *)
(*   - cubed/client.py: CubeClient.search.                                 *)
(* Python str values are TLA+ strings; s[i] is SubSeq(s, i, i).            *)
(***************************************************************************)
EXTENDS Integers, Sequences, FiniteSets, TLC

VARIABLES
    files,      \* list(item_collection): the scene items of the search
    band_map,   \* the band map handed to construct_file_df
    hrefs,      \* the data frame returned by construct_file_df (its rows)
    err,        \* the exception an operation raised, "" when none
    pc,         \* position of the running script
    pkg,        \* the package whose generate_cube runs: "cube" or "cubed"
    cache,      \* generate_cube's cache argument
    cache_dir,  \* generate_cube's cache_dir argument
    processes,  \* generate_cube's processes argument
    tasks,      \* the href_df arguments of the band_stack calls, in dispatch order
    status,     \* per task: "queued", "running" or "done"
    completed,  \* [task, result] of the finished band_stack calls, in finishing order
    persisted,  \* the rasters written so far: out_path -> array
    imgs,       \* the list generate_cube returns
    datestr,    \* date_glob.datestr
    pattern,    \* date_glob.pattern
    file_dir,         \* dir_to_xarr's file_dir argument
    date_expression,  \* dir_to_xarr's date_expression argument
    file_ext,         \* dir_to_xarr's file_ext argument
    tree,       \* the files under file_dir, as paths relative to it
    paths,      \* dir_to_xarr's local "files": the matches, in listing order
    dates,      \* dir_to_xarr's local "dates", parallel to the matches
    opened,     \* the files dir_to_xarr has read with open_rasterio
    cube,       \* the array dir_to_xarr returns: its slices along time
    bmap,       \* inv_bandmap's band_map argument, a dict of dicts
    inv_dict,   \* what inv_bandmap returns for it
    inv_twice,  \* what inv_bandmap returns for inv_dict
    sat_name,   \* parse_bandmap's sat argument
    map_path,   \* parse_bandmap's path argument
    disk,       \* the JSON files on disk: file name -> members of the document
    sat_map,    \* what parse_bandmap returns
    kwargs,     \* the keyword arguments of CubeClient.search
    forwarded   \* the keyword arguments handed on to Client.search

idxVars == <<files, band_map, hrefs, err, pc>>

cubeVars == <<pkg, cache, cache_dir, processes, tasks, status, completed, persisted, imgs>>

globVars == <<datestr, pattern>>

scanVars == <<file_dir, date_expression, file_ext, tree, paths, dates, opened, cube>>

utilVars == <<bmap, inv_dict, inv_twice, sat_name, map_path, disk, sat_map>>

clientVars == <<kwargs, forwarded>>

vars == <<idxVars, cubeVars, globVars, scanVars, utilVars, clientVars>>

-----------------------------------------------------------------------------
(* Python values: str ordering, datetime.date ordering.                    *)

\* The characters the model uses, in code point order.
Ascii == "%-./0123456789ABCDEFGHIJKLMNOPQRSTUVWXYZ[]_abcdefghijklmnopqrstuvwxyz"

At(s, i) == SubSeq(s, i, i)

Ord(c) == CHOOSE i \in 1..Len(Ascii) : At(Ascii, i) = c

\* str.__lt__: lexicographic by code point, a proper prefix is smaller.
RECURSIVE StrLess(_, _)
StrLess(a, b) ==
    IF Len(b) = 0 THEN FALSE
    ELSE IF Len(a) = 0 THEN TRUE
    ELSE IF At(a, 1) = At(b, 1)
         THEN StrLess(SubSeq(a, 2, Len(a)), SubSeq(b, 2, Len(b)))
         ELSE Ord(At(a, 1)) < Ord(At(b, 1))

\* datetime.date.__lt__ on <<year, month, day>>.
DateLess(d, e) ==
    \/ d[1] < e[1]
    \/ d[1] = e[1] /\ d[2] < e[2]
    \/ d[1] = e[1] /\ d[2] = e[2] /\ d[3] < e[3]

\* datetime.date(): a datetime <<year, month, day, hour>> loses its time of day.
DateOf(dt) == <<dt[1], dt[2], dt[3]>>

-----------------------------------------------------------------------------
(* The band maps.                                                          *)

HLSV2 ==
    [c \in {"HLSL30.v2.0", "HLSS30.v2.0"} |->
        IF c = "HLSL30.v2.0"
        THEN [B01 |-> "aerosal", B02 |-> "blue", B03 |-> "green", B04 |-> "red",
              B05 |-> "nir", B06 |-> "swir1", B07 |-> "swir2", B09 |-> "cirrus",
              Fmask |-> "fmask"]
        ELSE [B01 |-> "aerosal", B02 |-> "blue", B03 |-> "green", B04 |-> "red",
              B08A |-> "nir", B10 |-> "cirrus", B11 |-> "swir1", B12 |-> "swir2",
              Fmask |-> "fmask"]]

\* A band map that configures one of the two collections only.
L30Only == [c \in {"HLSL30.v2.0"} |-> HLSV2[c]]

BandMaps == {HLSV2, L30Only}

-----------------------------------------------------------------------------
(* Inputs: the scene items a catalog search returns.                       *)

MaxItems == 2

Collections == {"HLSL30.v2.0", "HLSS30.v2.0"}

Datetimes == {<<2021, 2, 1, 10>>, <<2021, 1, 1, 23>>, <<2020, 12, 31, 9>>}

\* asset names of an item, in the iteration order of item.assets
AssetLists ==
    { <<"B10", "metadata", "B04", "B08A">>,
      <<"B05", "browse", "B02">>,
      <<"browse">> }

ItemKinds == [collection_id : Collections, datetime : Datetimes, names : AssetLists]

\* item number n of a search result: every asset has its own href
Item(n, k) ==
    [collection_id |-> k.collection_id,
     datetime      |-> k.datetime,
     assets        |-> [j \in 1..Len(k.names) |->
                          [key |-> k.names[j], href |-> <<n, k.names[j]>>]]]

\* the search results of at most max items
ItemLists(max) ==
    UNION { { [n \in 1..len |-> Item(n, ks[n])] : ks \in [1..len -> ItemKinds] }
            : len \in 0..max }

-----------------------------------------------------------------------------
(* cube/download.py, cubed/download.py: get_links, construct_file_df        *)

\* band_map.get(sat) is None for an unknown collection: .keys() raises
get_links_raises(asset, bm) == asset.collection_id \notin DOMAIN bm

\* a faulty variant: the first asset of the item is skipped
get_links_skip_first(asset, bm) ==
    LET sat       == asset.collection_id
        band_keys == DOMAIN bm[sat]
        Mapped(a) == a.key \in band_keys
        kept      == SelectSeq(Tail(asset.assets), Mapped)
    IN  [j \in 1..Len(kept) |->
            [date  |-> DateOf(asset.datetime),
             sat   |-> sat,
             band  |-> kept[j].key,
             cname |-> bm[sat][kept[j].key],
             href  |-> kept[j].href]]

get_links(asset, bm) ==
    LET sat       == asset.collection_id
        band_keys == DOMAIN bm[sat]
        date      == DateOf(asset.datetime)
        Mapped(a) == a.key \in band_keys
        kept      == SelectSeq(asset.assets, Mapped)
    IN  [j \in 1..Len(kept) |->
            [date  |-> date,
             sat   |-> sat,
             band  |-> kept[j].key,
             cname |-> bm[sat][kept[j].key],
             href  |-> kept[j].href]]

\* pd.concat(file_list): the frames' rows, in list order
RECURSIVE concat(_)
concat(frames) ==
    IF frames = <<>> THEN <<>> ELSE Head(frames) \o concat(Tail(frames))

\* the sort key of sort_values(by=["date", "band"]): r1 sorts strictly before r2
SortKeyLess(r1, r2) ==
    \/ DateLess(r1.date, r2.date)
    \/ r1.date = r2.date /\ StrLess(r1.band, r2.band)

\* insert row r behind every row that does not sort after it (stable)
RECURSIVE InsertRow(_, _)
InsertRow(sorted, r) ==
    IF sorted = <<>> THEN <<r>>
    ELSE IF SortKeyLess(r, Head(sorted)) THEN <<r>> \o sorted
    ELSE <<Head(sorted)>> \o InsertRow(Tail(sorted), r)

RECURSIVE SortRows(_, _)
SortRows(done, rest) ==
    IF rest = <<>> THEN done
    ELSE SortRows(InsertRow(done, Head(rest)), Tail(rest))

\* a faulty variant: the frame is returned as concatenated
sort_values_unsorted(df) == df

\* href_df.sort_values(by=["date", "band"])
sort_values(df) == SortRows(<<>>, df)

construct_file_df(fs, bm) ==
    IF \E i \in 1..Len(fs) : get_links_raises(fs[i], bm)
    THEN [raises |-> "AttributeError", rows |-> <<>>]
    ELSE LET file_list == [i \in 1..Len(fs) |-> get_links(fs[i], bm)]
             href_df   == concat(file_list)
         IN  IF file_list = <<>>
             THEN [raises |-> "ValueError", rows |-> <<>>]   \* nothing to concatenate
             ELSE IF href_df = <<>>
             THEN [raises |-> "KeyError", rows |-> <<>>]     \* a frame without columns
             ELSE [raises |-> "", rows |-> sort_values(href_df)]

-----------------------------------------------------------------------------
(* The indexing script: search, then construct_file_df.                    *)

\* nothing written, nothing returned yet
NoRasters == [p \in {} |-> <<>>]

CubeIdle ==
    /\ pkg = "" /\ cache = FALSE /\ cache_dir = "." /\ processes = 0
    /\ tasks = <<>> /\ status = <<>> /\ completed = <<>>
    /\ persisted = NoRasters /\ imgs = <<>>

GlobIdle == datestr = "" /\ pattern = ""

ScanIdle ==
    /\ file_dir = "." /\ date_expression = "" /\ file_ext = "" /\ tree = {}
    /\ paths = <<>> /\ dates = <<>> /\ opened = <<>> /\ cube = <<>>

UtilIdle ==
    /\ bmap = <<>> /\ inv_dict = <<>> /\ inv_twice = <<>>
    /\ sat_name = "" /\ map_path = "" /\ disk = <<>> /\ sat_map = <<>>

ClientIdle == kwargs = <<>> /\ forwarded = <<>>

IdxIdle == files = <<>> /\ band_map = HLSV2 /\ hrefs = <<>> /\ err = "" /\ pc = "idle"

InitIndex ==
    /\ files \in ItemLists(MaxItems)
    /\ band_map \in BandMaps
    /\ hrefs = <<>>
    /\ err = ""
    /\ pc = "searched"
    /\ CubeIdle
    /\ GlobIdle
    /\ ScanIdle
    /\ UtilIdle
    /\ ClientIdle

ConstructFileDf ==
    /\ pc = "searched"
    /\ LET r == construct_file_df(files, band_map)
       IN  /\ hrefs' = r.rows
           /\ err' = r.raises
           /\ pc' = IF r.raises = "" THEN "indexed" ELSE "raised"
    /\ UNCHANGED <<files, band_map>>
    /\ UNCHANGED <<cubeVars, globVars, scanVars, utilVars, clientVars>>

NextIndex == ConstructFileDf

Spec == InitIndex /\ [][NextIndex]_vars

-----------------------------------------------------------------------------
(* cube/download.py, cubed/download.py: generate_cube, band_stack           *)

MaxProcesses == 2

CacheDirs == {".", "/SEAL/OwenSmith/hls_cube"}

\* the region the rasters are clipped to
Geom == "test_poly.geojson"

\* band_stack's "return None"
None == [none |-> TRUE]

Digit(k) == At("0123456789", k + 1)

Pad2(n) == Digit((n \div 10) % 10) \o Digit(n % 10)

Pad4(n) == Pad2(n \div 100) \o Pad2(n % 100)

\* str(date) inside an f-string: ISO 8601
isoformat(d) == Pad4(d[1]) \o "-" \o Pad2(d[2]) \o "-" \o Pad2(d[3])

\* Path.__truediv__
PathJoin(dir, name) == IF dir = "." THEN name ELSE dir \o "/" \o name

\* a faulty variant: repeated dates are kept
unique_with_repeats(seen, col) == seen \o col

\* hrefs["date"].unique(): the dates in order of first appearance
RECURSIVE unique(_, _)
unique(seen, col) ==
    IF col = <<>> THEN seen
    ELSE IF \E i \in 1..Len(seen) : seen[i] = Head(col)
         THEN unique(seen, Tail(col))
         ELSE unique(Append(seen, Head(col)), Tail(col))

date_column(df) == [i \in 1..Len(df) |-> df[i].date]

\* hrefs.loc[hrefs["date"] == d]
loc_date(df, d) == LET OnDate(r) == r.date = d IN SelectSeq(df, OnDate)

\* [hrefs.loc[hrefs["date"] == d] for d in dates]
date_slices(df) ==
    LET uniq == unique(<<>>, date_column(df))
    IN  [i \in 1..Len(uniq) |-> loc_date(df, uniq[i])]

\* rioxarray.open_rasterio(f, ...).rio.clip(geoms.geometry.apply(mapping), geoms.crs)
open_clipped(f, geoms) == [src |-> f, clip |-> geoms]

\* a faulty variant: the labels come out in reverse order
band_labels_reversed(href_df) ==
    [i \in 1..Len(href_df) |-> href_df[Len(href_df) + 1 - i].cname]

\* bands = list(href_df.cname)
band_labels(href_df) == [i \in 1..Len(href_df) |-> href_df[i].cname]

\* xr.concat([... for f in href_df.href], dim=band), attrs["long_name"] = bands
stack(href_df, geoms) ==
    LET bands == band_labels(href_df)
    IN  [band      |-> bands,
         data      |-> [i \in 1..Len(href_df) |-> open_clipped(href_df[i].href, geoms)],
         long_name |-> bands]

\* cache_dir / f"{sat}_{date}.tif", sat and date being the slice's first
out_path(href_df, dir) ==
    PathJoin(dir, href_df[1].sat \o "_" \o isoformat(href_df[1].date) \o ".tif")

\* xr_arr.rio.to_raster(out_path): writes or overwrites one file
to_raster(fs, path, arr) ==
    [p \in DOMAIN fs \cup {path} |-> IF p = path THEN arr ELSE fs[p]]

\* cube/download.py band_stack: [ret, fs], the value returned and the files after
band_stack_cube(href_df, geoms, c, dir, fs) ==
    LET xr_arr == stack(href_df, geoms)
    IN  IF c = TRUE
        THEN [ret |-> None, fs |-> to_raster(fs, out_path(href_df, dir), xr_arr)]
        ELSE [ret |-> xr_arr, fs |-> fs]

\* cubed/download.py band_stack: has no caching branch
band_stack_cubed(href_df, geoms, c, dir, fs) ==
    [ret |-> stack(href_df, geoms), fs |-> fs]

\* a faulty variant: the results are collected in finishing order
starmap_result_as_completed(done) == [k \in 1..Len(done) |-> done[k].result]

\* pool.starmap returns the results in the order of the tasks
starmap_result(done) ==
    [i \in 1..Len(done) |->
        done[CHOOSE k \in 1..Len(done) : done[k].task = i].result]

-----------------------------------------------------------------------------
(* generate_cube over an index built by construct_file_df.                 *)

\* the indexes construct_file_df returns for at most max items
Indexes(max) ==
    { r.rows : r \in { q \in { construct_file_df(fs, bm) :
                                  fs \in ItemLists(max), bm \in BandMaps } :
                         q.raises = "" } }

InitCube ==
    /\ files = <<>> /\ band_map = HLSV2 /\ err = ""
    /\ hrefs \in Indexes(MaxItems)
    /\ pc = "indexed"
    /\ CubeIdle
    /\ GlobIdle
    /\ ScanIdle
    /\ UtilIdle
    /\ ClientIdle

\* cubed/download.py generate_cube: one band_stack call after another, each
\* with cache fixed to False, whatever the cache argument
GenerateCubeCubed ==
    /\ pc = "indexed"
    /\ \E c \in BOOLEAN, dir \in CacheDirs, n \in 1..MaxProcesses :
         LET slices == date_slices(hrefs)
             res == [i \in 1..Len(slices) |->
                       band_stack_cubed(slices[i], Geom, FALSE, ".", persisted).ret]
         IN  /\ pkg' = "cubed"
             /\ cache' = c /\ cache_dir' = dir /\ processes' = n
             /\ tasks' = slices
             /\ status' = [i \in 1..Len(slices) |-> "done"]
             /\ completed' = [i \in 1..Len(slices) |-> [task |-> i, result |-> res[i]]]
             /\ imgs' = res
             /\ pc' = "done"
    /\ UNCHANGED <<files, band_map, hrefs, err, persisted, globVars, scanVars, utilVars, clientVars>>

\* cube/download.py generate_cube: mp.Pool(processes), starmap dispatched
GenerateCubeCube ==
    /\ pc = "indexed"
    /\ \E c \in BOOLEAN, dir \in CacheDirs, n \in 1..MaxProcesses :
         /\ pkg' = "cube"
         /\ cache' = c /\ cache_dir' = dir /\ processes' = n
         /\ tasks' = date_slices(hrefs)
         /\ status' = [i \in 1..Len(date_slices(hrefs)) |-> "queued"]
    /\ pc' = "pool"
    /\ UNCHANGED <<files, band_map, hrefs, err, completed, persisted, imgs, globVars, scanVars, utilVars, clientVars>>

Running == {i \in 1..Len(status) : status[i] = "running"}

\* an idle worker takes the next task of the queue
WorkerStart ==
    /\ pc = "pool"
    /\ Cardinality(Running) < processes
    /\ \E i \in 1..Len(status) :
         /\ status[i] = "queued"
         /\ \A j \in 1..(i - 1) : status[j] # "queued"
         /\ status' = [status EXCEPT ![i] = "running"]
    /\ UNCHANGED <<idxVars, pkg, cache, cache_dir, processes, tasks, completed,
                   persisted, imgs, globVars, scanVars, utilVars, clientVars>>

\* a worker finishes its band_stack call; workers finish in any order
WorkerFinish ==
    /\ pc = "pool"
    /\ \E i \in Running :
         LET r == band_stack_cube(tasks[i], Geom, cache, cache_dir, persisted)
         IN  /\ status' = [status EXCEPT ![i] = "done"]
             /\ completed' = Append(completed, [task |-> i, result |-> r.ret])
             /\ persisted' = r.fs
    /\ UNCHANGED <<idxVars, pkg, cache, cache_dir, processes, tasks, imgs, globVars, scanVars, utilVars, clientVars>>

\* starmap returns once every task is done
StarmapReturn ==
    /\ pc = "pool"
    /\ \A i \in 1..Len(status) : status[i] = "done"
    /\ imgs' = starmap_result(completed)
    /\ pc' = "done"
    /\ UNCHANGED <<files, band_map, hrefs, err, pkg, cache, cache_dir, processes,
                   tasks, status, completed, persisted, globVars, scanVars, utilVars, clientVars>>

NextCube ==
    \/ GenerateCubeCubed
    \/ GenerateCubeCube
    \/ WorkerStart
    \/ WorkerFinish
    \/ StarmapReturn

SpecCube == InitCube /\ [][NextCube]_vars

-----------------------------------------------------------------------------
(* cubed/date_glob.py: class date_glob (imported as DateGlob)               *)

\* s * n
RECURSIVE Repeat(_, _)
Repeat(s, n) == IF n = 0 THEN "" ELSE s \o Repeat(s, n - 1)

StartsWith(s, prefix) ==
    Len(prefix) <= Len(s) /\ SubSeq(s, 1, Len(prefix)) = prefix

Drop(s, n) == SubSeq(s, n + 1, Len(s))

\* sub in s
Contains(s, sub) ==
    \E i \in 0..(Len(s) - Len(sub)) : SubSeq(s, i + 1, i + Len(sub)) = sub

\* s.replace(old, new), old non-empty: every occurrence, left to right,
\* without overlap
RECURSIVE Replace(_, _, _)
Replace(s, old, new) ==
    IF s = "" THEN ""
    ELSE IF StartsWith(s, old) THEN new \o Replace(Drop(s, Len(old)), old, new)
    ELSE At(s, 1) \o Replace(Drop(s, 1), old, new)

glob_Y == Repeat("[0-9]", 4)

glob_m == Repeat("[0-9]", 2)

glob_d == Repeat("[0-9]", 2)

glob_j == Repeat("[0-9]", 3)

replace_year(pat) == Replace(pat, "%Y", glob_Y)

\* a faulty variant: the month gets the day-of-year wildcards
replace_month_as_j(pat) == Replace(pat, "%m", glob_j)

replace_month(pat) == Replace(pat, "%m", glob_m)

replace_day(pat) == Replace(pat, "%d", glob_d)

\* date_glob.__parse_date
parse_date(expr) ==
    LET p0 == expr
        p1 == IF Contains(expr, "%Y") THEN replace_year(p0) ELSE p0
        p2 == IF Contains(p1, "%m") THEN replace_month(p1) ELSE p1
        p3 == IF Contains(p2, "%d") THEN replace_day(p2) ELSE p2
    IN  p3

MaxPieces == 5

\* what a format expression is made of: the three tokens and literal text
Pieces == {"%Y", "%m", "%d", "-", "%", "m"}

RECURSIVE Join(_)
Join(ps) == IF ps = <<>> THEN "" ELSE Head(ps) \o Join(Tail(ps))

\* the format expressions of at most max pieces
FormatExprs(max) ==
    UNION { { Join(ps) : ps \in [1..len -> Pieces] } : len \in 0..max }

InitGlob ==
    /\ IdxIdle /\ CubeIdle /\ ScanIdle /\ UtilIdle /\ ClientIdle
    /\ datestr \in FormatExprs(MaxPieces)
    /\ pattern = ""

\* date_glob.__init__
DateGlobInit ==
    /\ pc = "idle"
    /\ pattern' = parse_date(datestr)
    /\ pc' = "built"
    /\ UNCHANGED <<files, band_map, hrefs, err, cubeVars, datestr, scanVars, utilVars, clientVars>>

NextGlob == DateGlobInit

SpecGlob == InitGlob /\ [][NextGlob]_vars

-----------------------------------------------------------------------------
(* cubed/nc.py: dir_to_xarr                                                *)

IsDigit(c) == \E i \in 1..10 : At("0123456789", i) = c

\* int() of one digit
DigitVal(c) == (CHOOSE i \in 1..10 : At("0123456789", i) = c) - 1

\* the pattern read as a glob or as a regular expression: "[0-9]" is a digit
\* class, any other character stands for itself
RECURSIVE Atoms(_)
Atoms(pat) ==
    IF pat = "" THEN <<>>
    ELSE IF StartsWith(pat, "[0-9]") THEN <<"[0-9]">> \o Atoms(Drop(pat, 5))
    ELSE <<At(pat, 1)>> \o Atoms(Drop(pat, 1))

AtomMatches(a, c) == IF a = "[0-9]" THEN IsDigit(c) ELSE a = c

\* the first n atoms match the n characters of s from position i on
PrefixMatchesAt(atoms, n, s, i) ==
    /\ i + n - 1 <= Len(s)
    /\ \A k \in 1..n : AtomMatches(atoms[k], At(s, i + k - 1))

EndsWith(s, suffix) ==
    Len(suffix) <= Len(s) /\ SubSeq(s, Len(s) - Len(suffix) + 1, Len(s)) = suffix

\* Path.name
RECURSIVE BaseName(_)
BaseName(path) ==
    IF Contains(path, "/") THEN BaseName(Drop(path, 1)) ELSE path

\* fnmatch of a file name against f"*{pattern}*.{file_ext}"
fnmatch(name, pat, ext) ==
    LET atoms == Atoms(pat)
    IN  /\ EndsWith(name, "." \o ext)
        /\ \E i \in 1..(Len(name) + 1) :
               /\ PrefixMatchesAt(atoms, Len(atoms), name, i)
               /\ i + Len(atoms) - 1 <= Len(name) - Len(ext) - 1

\* file_dir.rglob(f"*{pattern}*.{file_ext}"): the matching files, as Paths
rglob(dir, files_under, pat, ext) ==
    { PathJoin(dir, rel) : rel \in {r \in files_under : fnmatch(BaseName(r), pat, ext)} }

\* re.search(fr"{pattern}*|$", s).group(): the "*" stars the pattern's last
\* atom; the leftmost match wins, the star is greedy, "$" matches at the end
re_search_group(pat, s) ==
    LET atoms == Atoms(pat)
        n     == Len(atoms)
        Starts == {i \in 1..(Len(s) + 1) : PrefixMatchesAt(atoms, n - 1, s, i)}
    IN  IF Starts = {} THEN ""
        ELSE LET i0   == CHOOSE i \in Starts : \A j \in Starts : i <= j
                 from == i0 + n - 1
                 Ends == {e \in (from - 1)..Len(s) :
                            \A k \in from..e : AtomMatches(atoms[n], At(s, k))}
                 e0   == CHOOSE e \in Ends : \A f \in Ends : f <= e
             IN  SubSeq(s, i0, e0)

NoMatch == [ok |-> FALSE]

\* the regular expression _strptime compiles from the format, matched at the
\* start of s: %Y is \d\d\d\d, %m is 1[0-2]|0[1-9]|[1-9], %d is
\* 3[01]|[12]\d|0[1-9]|[1-9]; the first alternative that lets the rest match
\* is taken
RECURSIVE strptime_match(_, _, _)
strptime_match(fmt, s, got) ==
    IF fmt = "" THEN [ok |-> TRUE, got |-> got, rest |-> s]
    ELSE IF StartsWith(fmt, "%Y") THEN
        IF Len(s) >= 4 /\ \A k \in 1..4 : IsDigit(At(s, k))
        THEN strptime_match(Drop(fmt, 2), Drop(s, 4),
                 [got EXCEPT ![1] = 1000 * DigitVal(At(s, 1)) + 100 * DigitVal(At(s, 2))
                                    + 10 * DigitVal(At(s, 3)) + DigitVal(At(s, 4))])
        ELSE NoMatch
    ELSE IF StartsWith(fmt, "%m") \/ StartsWith(fmt, "%d") THEN
        LET field == IF StartsWith(fmt, "%m") THEN 2 ELSE 3
            c1 == At(s, 1)
            c2 == At(s, 2)
            two == /\ Len(s) >= 2 /\ IsDigit(c1) /\ IsDigit(c2)
                   /\ LET v == 10 * DigitVal(c1) + DigitVal(c2)
                      IN  IF field = 2 THEN v \in 1..12 ELSE v \in 1..31
            one == Len(s) >= 1 /\ IsDigit(c1) /\ DigitVal(c1) >= 1
            r2 == strptime_match(Drop(fmt, 2), Drop(s, 2),
                      [got EXCEPT ![field] = 10 * DigitVal(c1) + DigitVal(c2)])
            r1 == strptime_match(Drop(fmt, 2), Drop(s, 1),
                      [got EXCEPT ![field] = DigitVal(c1)])
        IN  IF two /\ r2.ok THEN r2
            ELSE IF one THEN r1
            ELSE NoMatch
    ELSE IF Len(s) >= 1 /\ At(s, 1) = At(fmt, 1)
         THEN strptime_match(Drop(fmt, 1), Drop(s, 1), got)
         ELSE NoMatch

DaysInMonth(y, m) ==
    IF m \in {4, 6, 9, 11} THEN 30
    ELSE IF m # 2 THEN 31
    ELSE IF y % 4 = 0 /\ (y % 100 # 0 \/ y % 400 = 0) THEN 29
    ELSE 28

\* datetime.strptime(s, fmt): [ok, date]; not ok stands for ValueError (no
\* match, unconverted data remains, or a day the month does not have)
strptime(s, fmt) ==
    LET r == strptime_match(fmt, s, <<1900, 1, 1>>)
    IN  IF r.ok /\ r.rest = "" /\ r.got[3] <= DaysInMonth(r.got[1], r.got[2])
        THEN [ok |-> TRUE, date |-> r.got]
        ELSE NoMatch

\* rioxarray.open_rasterio(f, chunks=True)
open_rasterio(f) == [src |-> f]

\* insert slice x behind every slice whose time is not later (stable)
RECURSIVE InsertByTime(_, _)
InsertByTime(sorted, x) ==
    IF sorted = <<>> THEN <<x>>
    ELSE IF DateLess(x.time, Head(sorted).time) THEN <<x>> \o sorted
    ELSE <<Head(sorted)>> \o InsertByTime(Tail(sorted), x)

RECURSIVE SortByTime(_, _)
SortByTime(done, rest) ==
    IF rest = <<>> THEN done
    ELSE SortByTime(InsertByTime(done, Head(rest)), Tail(rest))

\* a faulty variant: the array is returned in listing order
sortby_time_unsorted(arr) == arr

\* xr_arr.sortby("time")
sortby_time(arr) == SortByTime(<<>>, arr)

\* a faulty variant: the check for an empty listing is missing
no_files_never(listed) == FALSE

\* len(files) == 0
no_files(listed) == Len(listed) = 0

\* dir_to_xarr, given the order in which rglob lists the matches
dir_to_xarr(listed, expr) ==
    LET globexp == parse_date(expr)
        parsed  == [i \in 1..Len(listed) |->
                       strptime(re_search_group(globexp, listed[i]), expr)]
    IN  IF no_files(listed)
        THEN [raises |-> "FileNotFoundError", dates |-> <<>>, opened |-> <<>>,
              ret |-> <<>>]
        ELSE IF \E i \in 1..Len(listed) : ~ parsed[i].ok
        THEN [raises |-> "ValueError", dates |-> <<>>, opened |-> <<>>, ret |-> <<>>]
        ELSE LET ds == [i \in 1..Len(listed) |-> parsed[i].date]
                 xr_arr == [i \in 1..Len(listed) |->
                               [time |-> ds[i], data |-> open_rasterio(listed[i])]]
             IN  [raises |-> "", dates |-> ds, opened |-> listed,
                  ret |-> sortby_time(xr_arr)]

MaxFiles == 2

FileDirs == {"data", "runs/2020-01-01"}

DateExpressions == {"%Y-%m-%d", "%Y%m%d"}

RelPaths ==
    { "scene_2021-06-15_B02.tif",
      "scene_2021-06-15_B03.tif",
      "sub/scene_2021-01-31.tif",
      "2019-12-31/scene_2021-03-01.tif",
      "scene_2021-06-150.tif",
      "v1999-12-3_2021-02-28.tif",
      "scene_2021-02-30.tif",
      "scene_20210615.tif",
      "scene_2021-06-15.nc" }

\* the orders in which a set of files can be listed
Orderings(S) ==
    { o \in [1..Cardinality(S) -> S] :
        \A i, j \in 1..Cardinality(S) : o[i] = o[j] => i = j }

InitScan ==
    /\ IdxIdle /\ CubeIdle /\ GlobIdle /\ UtilIdle /\ ClientIdle
    /\ file_dir \in FileDirs
    /\ date_expression \in DateExpressions
    /\ file_ext = "tif"
    /\ tree \in {t \in SUBSET RelPaths : Cardinality(t) <= MaxFiles}
    /\ paths = <<>> /\ dates = <<>> /\ opened = <<>> /\ cube = <<>>

DirToXarr ==
    /\ pc = "idle"
    /\ \E listed \in Orderings(rglob(file_dir, tree, parse_date(date_expression),
                                    file_ext)) :
         LET r == dir_to_xarr(listed, date_expression)
         IN  /\ paths' = listed
             /\ dates' = r.dates
             /\ opened' = r.opened
             /\ cube' = r.ret
             /\ err' = r.raises
             /\ pc' = IF r.raises = "" THEN "returned" ELSE "raised"
    /\ UNCHANGED <<files, band_map, hrefs, cubeVars, globVars, utilVars, clientVars,
                   file_dir, date_expression, file_ext, tree>>

NextScan == DirToXarr

SpecScan == InitScan /\ [][NextScan]_vars

-----------------------------------------------------------------------------
(* Python dict: the items in insertion order, <<key, value>>, keys unique.  *)

keys(d) == {d[i][1] : i \in DOMAIN d}

list_keys(d) == [i \in DOMAIN d |-> d[i][1]]

\* d[k] for a key of d
getitem(d, k) == d[CHOOSE i \in DOMAIN d : d[i][1] = k][2]

\* d[k] = v: a key already held keeps its place and takes the new value
setitem(d, k, v) ==
    IF k \in keys(d)
    THEN [i \in DOMAIN d |-> IF d[i][1] = k THEN <<k, v>> ELSE d[i]]
    ELSE Append(d, <<k, v>>)

-----------------------------------------------------------------------------
(* cubed/utils.py, cube/download.py: inv_bandmap                           *)

\* a faulty variant: the items are copied, key and value not exchanged
items_not_swapped(items, acc) == items

\* {v: k for k, v in items}, built item by item onto acc
RECURSIVE swap_items(_, _)
swap_items(items, acc) ==
    IF items = <<>> THEN acc
    ELSE swap_items(Tail(items), setitem(acc, Head(items)[2], Head(items)[1]))

\* for c in collections: inv_dict[c] = {v: k for k, v in band_map.get(c).items()}
RECURSIVE inv_collections(_, _, _)
inv_collections(collections, bm, acc) ==
    IF collections = <<>> THEN acc
    ELSE LET c == Head(collections)
         IN  inv_collections(Tail(collections), bm,
                 setitem(acc, c, swap_items(getitem(bm, c), <<>>)))

inv_bandmap(bm) == inv_collections(list_keys(bm), bm, <<>>)

MaxBands == 2

BandCodes == {"B02", "B04", "B8A"}

Cnames == {"blue", "red"}

SatOrders ==
    { <<>>, <<"HLSL30.v2.0">>, <<"HLSS30.v2.0">>,
      <<"HLSL30.v2.0", "HLSS30.v2.0">>, <<"HLSS30.v2.0", "HLSL30.v2.0">> }

\* the dicts a satellite entry can be: native codes unique (they are keys),
\* canonical names free to repeat
SatEntries(max) ==
    { d \in UNION { [1..n -> BandCodes \X Cnames] : n \in 0..max } :
        \A i, j \in DOMAIN d : i # j => d[i][1] # d[j][1] }

BandMapDicts(max) ==
    UNION { { [i \in DOMAIN so |-> <<so[i], f[i]>>] :
                f \in [DOMAIN so -> SatEntries(max)] } : so \in SatOrders }

InitInv ==
    /\ IdxIdle /\ CubeIdle /\ GlobIdle /\ ScanIdle /\ ClientIdle
    /\ bmap \in BandMapDicts(MaxBands)
    /\ inv_dict = <<>> /\ inv_twice = <<>>
    /\ sat_name = "" /\ map_path = "" /\ disk = <<>> /\ sat_map = <<>>

\* inv_dict = inv_bandmap(band_map)
Invert ==
    /\ pc = "idle"
    /\ inv_dict' = inv_bandmap(bmap)
    /\ pc' = "inverted"
    /\ UNCHANGED <<files, band_map, hrefs, err, cubeVars, globVars, scanVars,
                   bmap, inv_twice, sat_name, map_path, disk, sat_map, clientVars>>

\* inv_bandmap applied to its own result
InvertAgain ==
    /\ pc = "inverted"
    /\ inv_twice' = inv_bandmap(inv_dict)
    /\ pc' = "inverted_twice"
    /\ UNCHANGED <<files, band_map, hrefs, err, cubeVars, globVars, scanVars,
                   bmap, inv_dict, sat_name, map_path, disk, sat_map, clientVars>>

NextInv == Invert \/ InvertAgain

SpecInv == InitInv /\ [][NextInv]_vars

-----------------------------------------------------------------------------
(* cubed/utils.py: parse_bandmap                                           *)
(* A path argument is [type, value]; a JSON value is [dict |-> items] for  *)
(* an object, [list |-> elements] for an array and None for null; a file   *)
(* on disk is [valid |-> FALSE] or [valid |-> TRUE, text |-> JSON value]   *)
(* with the members of an object in document order.                        *)

Cwd == "/work"

\* Path(path): a leading "./" is dropped; TypeError for what is no path
PathOf(p) ==
    IF p.type = "Path" THEN p
    ELSE IF p.type = "str"
         THEN [type |-> "Path",
               value |-> IF StartsWith(p.value, "./") THEN Drop(p.value, 2)
                         ELSE p.value]
         ELSE [type |-> "TypeError"]

\* path.resolve(): an absolute path is kept, a relative one is under the cwd
resolve(p) ==
    IF StartsWith(p.value, "/") THEN p.value ELSE Cwd \o "/" \o p.value

\* the dict json.load builds of an object: a repeated name keeps its first
\* place and takes the last value
RECURSIVE load_members(_, _)
load_members(members, acc) ==
    IF members = <<>> THEN acc
    ELSE load_members(Tail(members),
                      setitem(acc, Head(members)[1], Head(members)[2]))

json_load(text) ==
    IF "dict" \in DOMAIN text
    THEN [dict |-> load_members(text.dict, <<>>)]
    ELSE text

\* a faulty variant: an empty dict, not None, for a missing key
get_or_empty(d, k) == IF k \in keys(d) THEN getitem(d, k) ELSE [dict |-> <<>>]

\* d.get(k)
get(d, k) == IF k \in keys(d) THEN getitem(d, k) ELSE None

\* [raises, ret]: the exception that leaves parse_bandmap, or its return value
parse_bandmap(sat, p, fs) ==
    LET converted == IF p.type = "Path" THEN p ELSE PathOf(p)
        \* the except branch prints and leaves path as it was
        pth       == IF converted.type = "TypeError" THEN p ELSE converted
    IN  IF pth.type # "Path"
        THEN [raises |-> "AttributeError", ret |-> None]
        ELSE IF resolve(pth) \notin DOMAIN fs
        THEN [raises |-> "FileNotFoundError", ret |-> None]
        ELSE IF ~ fs[resolve(pth)].valid
        THEN [raises |-> "JSONDecodeError", ret |-> None]
        ELSE LET loaded == json_load(fs[resolve(pth)].text)
             IN  IF "dict" \notin DOMAIN loaded
                 THEN [raises |-> "AttributeError", ret |-> None]
                 ELSE [raises |-> "", ret |-> get(loaded.dict, sat)]

MaxMembers == 2

SatNames == {"HLSv2", "Landsat8", "wrong"}

ConfigKeys == {"HLSv2", "Landsat8"}

\* what the config stores under a key: a dict of collection -> band dict
ConfigValues ==
    { [dict |-> << <<"HLSL30.v2.0", [dict |-> << <<"B05", "nir">> >>]>>,
                   <<"HLSS30.v2.0", [dict |-> << <<"B8A", "nir">> >>]>> >>],
      [dict |-> << <<"LC08", [dict |-> << <<"B5", "nir">> >>]>> >>] }

BandMapPath == "/work/cubed/bandmap.json"

PathArgs ==
    { [type |-> "str",  value |-> "./cubed/bandmap.json"],
      [type |-> "str",  value |-> "cubed/bandmap.json"],
      [type |-> "Path", value |-> "cubed/bandmap.json"],
      [type |-> "Path", value |-> "/work/cubed/bandmap.json"],
      [type |-> "Path", value |-> "bandmap.json"],
      [type |-> "NoneType", value |-> ""] }

Documents(max) ==
    { [valid |-> FALSE],
      [valid |-> TRUE, text |-> None],
      [valid |-> TRUE, text |-> [list |-> <<"HLSv2">>]] }
    \cup { [valid |-> TRUE, text |-> [dict |-> members]] :
             members \in UNION { [1..n -> ConfigKeys \X ConfigValues] :
                                   n \in 0..max } }

Disks(max) ==
    { <<>> } \cup { [f \in {BandMapPath} |-> doc] : doc \in Documents(max) }

InitParse ==
    /\ IdxIdle /\ CubeIdle /\ GlobIdle /\ ScanIdle /\ ClientIdle
    /\ bmap = <<>> /\ inv_dict = <<>> /\ inv_twice = <<>>
    /\ sat_name \in SatNames
    /\ map_path \in PathArgs
    /\ disk \in Disks(MaxMembers)
    /\ sat_map = <<>>

\* sat_map = parse_bandmap(sat, path)
ParseBandmap ==
    /\ pc = "idle"
    /\ LET r == parse_bandmap(sat_name, map_path, disk)
       IN  /\ err' = r.raises
           /\ sat_map' = IF r.raises = "" THEN r.ret ELSE sat_map
           /\ pc' = IF r.raises = "" THEN "returned" ELSE "raised"
    /\ UNCHANGED <<files, band_map, hrefs, cubeVars, globVars, scanVars,
                   bmap, inv_dict, inv_twice, sat_name, map_path, disk,
                   clientVars>>

NextParse == ParseBandmap

SpecParse == InitParse /\ [][NextParse]_vars

-----------------------------------------------------------------------------
(* cubed/client.py: CubeClient.search                                      *)
(* The keyword arguments are a record of the names passed. An intersects   *)
(* value is [type |-> "GeoDataFrame", features], [type |-> "Path", value], *)
(* [type |-> "str", value], [type |-> "dict", value] (a raw geometry       *)
(* mapping) or None.                                                       *)

\* geom_json["features"][0]["geometry"]
get_subgeom(geom_json) ==
    IF "features" \notin DOMAIN geom_json
    THEN [raises |-> "KeyError", ret |-> None]
    ELSE IF geom_json.features = <<>>
    THEN [raises |-> "IndexError", ret |-> None]
    ELSE [raises |-> "",
          ret |-> [type |-> "dict", value |-> geom_json.features[1].geometry]]

\* [raises, ret]; a value that is neither a GeoDataFrame nor a Path falls off
\* the end of the function, which returns None
check_intersects(geom, fs) ==
    IF geom # None /\ geom.type = "GeoDataFrame"
    THEN get_subgeom([type |-> "FeatureCollection", features |-> geom.features])
    ELSE IF geom # None /\ geom.type = "Path"
    THEN IF resolve(geom) \notin DOMAIN fs
         THEN [raises |-> "FileNotFoundError", ret |-> None]
         ELSE get_subgeom(fs[resolve(geom)])
    ELSE [raises |-> "", ret |-> None]

\* [raises, forwarded]: the keyword arguments Client.search is called with
search(kw, fs) ==
    IF "intersects" \in DOMAIN kw
    THEN LET r == check_intersects(kw.intersects, fs)
         IN  [raises    |-> r.raises,
              forwarded |-> [kw EXCEPT !["intersects"] = r.ret]]
    ELSE [raises |-> "", forwarded |-> kw]

MaxFeatures == 2

Geometries ==
    { [type |-> "Polygon", coordinates |-> "region"],
      [type |-> "Polygon", coordinates |-> "island"] }

FeatureLists(max) ==
    UNION { [1..n -> {[geometry |-> g] : g \in Geometries}] : n \in 0..max }

\* the GeoJSON files: a feature collection of two features, one of none, and
\* a file holding a bare geometry
GeoFiles ==
    [f \in {"/work/test_poly.geojson", "/work/empty.geojson",
            "/work/geometry.geojson"} |->
        IF f = "/work/test_poly.geojson"
        THEN [type |-> "FeatureCollection",
              features |-> << [geometry |-> [type |-> "Polygon",
                                             coordinates |-> "island"]],
                              [geometry |-> [type |-> "Polygon",
                                             coordinates |-> "region"]] >>]
        ELSE IF f = "/work/empty.geojson"
        THEN [type |-> "FeatureCollection", features |-> <<>>]
        ELSE [type |-> "Polygon", coordinates |-> "region"]]

IntersectsArgs(max) ==
    { [type |-> "GeoDataFrame", features |-> fl] : fl \in FeatureLists(max) }
    \cup { [type |-> "Path", value |-> v] :
             v \in {"test_poly.geojson", "/work/test_poly.geojson",
                    "empty.geojson", "geometry.geojson", "missing.geojson"} }
    \cup { [type |-> "str", value |-> "test_poly.geojson"] }
    \cup { [type |-> "dict", value |-> g] : g \in Geometries }
    \cup { None }

CollectionsArgs ==
    { <<"HLSL30.v2.0">>, <<"HLSL30.v2.0", "HLSS30.v2.0">> }

DatetimeArgs == { "2021-05-01/2021-06-01" }

\* a keyword either not passed, {}, or passed with one value, {v}
Optional(values) == { {} } \cup { {v} : v \in values }

\* the keyword arguments of one call: only the names passed
Kwargs(c, i, d) ==
    [k \in {n \in {"collections", "intersects", "datetime"} :
              \/ n = "collections" /\ c # {}
              \/ n = "intersects" /\ i # {}
              \/ n = "datetime" /\ d # {}} |->
        IF k = "collections" THEN CHOOSE v \in c : TRUE
        ELSE IF k = "intersects" THEN CHOOSE v \in i : TRUE
        ELSE CHOOSE v \in d : TRUE]

Calls(max) ==
    { Kwargs(c, i, d) : c \in Optional(CollectionsArgs),
                        i \in Optional(IntersectsArgs(max)),
                        d \in Optional(DatetimeArgs) }

InitClient ==
    /\ IdxIdle /\ CubeIdle /\ GlobIdle /\ ScanIdle
    /\ bmap = <<>> /\ inv_dict = <<>> /\ inv_twice = <<>>
    /\ sat_name = "" /\ map_path = "" /\ sat_map = <<>>
    /\ disk = GeoFiles
    /\ kwargs \in Calls(MaxFeatures)
    /\ forwarded = <<>>

\* catalog.search(**kwargs)
Search ==
    /\ pc = "idle"
    /\ LET r == search(kwargs, disk)
       IN  /\ err' = r.raises
           /\ forwarded' = IF r.raises = "" THEN r.forwarded ELSE forwarded
           /\ pc' = IF r.raises = "" THEN "forwarded" ELSE "raised"
    /\ UNCHANGED <<files, band_map, hrefs, cubeVars, globVars, scanVars,
                   utilVars, kwargs>>

NextClient == Search

SpecClient == InitClient /\ [][NextClient]_vars

-----------------------------------------------------------------------------
(* Claims about the index.                                                 *)

\* C1 (as claimed): the index returned by construct_file_df is ascending by
\* date and, among rows of one date, ascending by canonical band name: no row
\* is followed by a row of an earlier date, or of the same date and a
\* smaller cname.
C1_SortedByDateThenCname ==
    pc = "indexed" =>
        \A i \in 1..(Len(hrefs) - 1) :
            /\ ~ DateLess(hrefs[i + 1].date, hrefs[i].date)
            /\ hrefs[i + 1].date = hrefs[i].date
                   => ~ StrLess(hrefs[i + 1].cname, hrefs[i].cname)

\* C1 (amended): the index returned by construct_file_df is ascending by date
\* and, among rows of one date, ascending by native band code (the "band"
\* column), whatever the order of the items and of their assets.
C1_SortedByDateThenBand ==
    pc = "indexed" =>
        \A i \in 1..(Len(hrefs) - 1) :
            /\ ~ DateLess(hrefs[i + 1].date, hrefs[i].date)
            /\ hrefs[i + 1].date = hrefs[i].date
                   => ~ StrLess(hrefs[i + 1].band, hrefs[i].band)

\* An index was built from two items given latest first, and the sort moved
\* rows: the first row comes from the second item, and one date holds
\* several bands that the item listed in another order.
C1_Witness ==
    /\ pc = "indexed"
    /\ Len(files) = 2
    /\ DateLess(DateOf(files[2].datetime), DateOf(files[1].datetime))
    /\ hrefs[1].href[1] = 2
    /\ \E i \in 1..(Len(hrefs) - 1) :
           /\ hrefs[i].date = hrefs[i + 1].date
           /\ hrefs[i].href[1] = hrefs[i + 1].href[1]
           /\ hrefs[i].band = "B04" /\ hrefs[i + 1].band = "B08A"

\* the (item, asset) pairs the band map covers
MappedPairs ==
    UNION { { <<i, j>> : j \in { k \in 1..Len(files[i].assets) :
                  files[i].assets[k].key \in DOMAIN band_map[files[i].collection_id] } }
            : i \in 1..Len(files) }

\* C2: the index holds exactly one row per asset of an item whose name is a
\* key of band_map[item.collection_id], none for any other asset, and the
\* row carries the item's date and collection, the mapped cname and the
\* asset's own href; so it has as many rows as there are such pairs.
C2_OneRowPerMappedAsset ==
    pc = "indexed" =>
        /\ \A p \in MappedPairs :
               LET item == files[p[1]]
                   a    == item.assets[p[2]]
               IN  /\ Cardinality({r \in 1..Len(hrefs) : hrefs[r].href = a.href}) = 1
                   /\ \A r \in 1..Len(hrefs) :
                          hrefs[r].href = a.href =>
                              /\ hrefs[r].date = DateOf(item.datetime)
                              /\ hrefs[r].sat = item.collection_id
                              /\ hrefs[r].band = a.key
                              /\ hrefs[r].cname = band_map[item.collection_id][a.key]
        /\ \A r \in 1..Len(hrefs) :
               \E p \in MappedPairs : files[p[1]].assets[p[2]].href = hrefs[r].href
        /\ Len(hrefs) = Cardinality(MappedPairs)

\* Two items of one date, one with three mapped assets and an unmapped one,
\* the other with a single mapped asset: four rows, the unmapped assets gone.
C2_Witness ==
    /\ pc = "indexed"
    /\ Len(files) = 2
    /\ DateOf(files[1].datetime) = DateOf(files[2].datetime)
    /\ Len(files[1].assets) = 4 /\ Len(files[2].assets) = 3
    /\ Cardinality(MappedPairs) = 4
    /\ Len(hrefs) = 4
    /\ \A r \in 1..Len(hrefs) : hrefs[r].band \notin {"metadata", "browse"}

-----------------------------------------------------------------------------
(* Claims about generate_cube and band_stack.                              *)

DatesOf(df) == {df[i].date : i \in 1..Len(df)}

\* C3: generate_cube runs band_stack exactly once per distinct date of the
\* index, in ascending date order, and each call receives all and only the
\* index rows of its date, in their order in the index: the slices are
\* non-empty, single-dated, strictly ascending, and laid end to end they are
\* the index; no slice is run twice, and at the end each has run once.
C3_OneSlicePerDateAscending ==
    pc \in {"pool", "done"} =>
        /\ Len(tasks) = Cardinality(DatesOf(hrefs))
        /\ concat(tasks) = hrefs
        /\ \A i \in 1..Len(tasks) :
               /\ tasks[i] # <<>>
               /\ \A j \in 1..Len(tasks[i]) : tasks[i][j].date = tasks[i][1].date
        /\ \A i \in 1..(Len(tasks) - 1) :
               DateLess(tasks[i][1].date, tasks[i + 1][1].date)
        /\ \A i \in 1..Len(tasks) :
               /\ Cardinality({k \in 1..Len(completed) : completed[k].task = i}) <= 1
               /\ pc = "done" =>
                      Cardinality({k \in 1..Len(completed) : completed[k].task = i}) = 1

\* generate_cube has returned for an index of two dates with several rows
\* each, the earlier date being the one of the item the search listed second.
C3_Witness ==
    /\ pc = "done"
    /\ Len(tasks) = 2
    /\ Len(tasks[1]) >= 2
    /\ Len(tasks[2]) >= 2
    /\ tasks[1][1].href[1] = 2
    /\ Len(completed) = 2

\* the array a finished band_stack call produced: returned, or written
ArrayOf(k) ==
    IF completed[k].result # None THEN completed[k].result
    ELSE persisted[PathJoin(cache_dir,
             tasks[completed[k].task][1].sat \o "_"
                 \o isoformat(tasks[completed[k].task][1].date) \o ".tif")]

\* C4: the array band_stack builds for a slice has one band per row of the
\* slice, in slice order: the i-th band label is the i-th row's cname and the
\* i-th layer is the clipped raster read from the i-th row's href.
C4_BandAxisFollowsSlice ==
    \A k \in 1..Len(completed) :
        LET slice == tasks[completed[k].task]
            arr   == ArrayOf(k)
        IN  /\ Len(arr.band) = Len(slice)
            /\ Len(arr.data) = Len(slice)
            /\ \A i \in 1..Len(slice) :
                   /\ arr.band[i] = slice[i].cname
                   /\ arr.data[i] = [src |-> slice[i].href, clip |-> Geom]

\* a band_stack call has stacked a slice of three rows with three different
\* cnames
C4_Witness ==
    \E k \in 1..Len(completed) :
        LET slice == tasks[completed[k].task]
        IN  /\ Len(slice) = 3
            /\ Cardinality({slice[i].cname : i \in 1..3}) = 3
            /\ Len(ArrayOf(k).data) = 3

\* C5: once generate_cube has returned, with cache=True exactly one raster
\* per date of the index is persisted, at cache_dir/{sat}_{date}.tif of its
\* slice, and every returned slice result is None; with cache=False nothing
\* is persisted and every slice's array is returned.
C5_CacheModePersistsOnePerDate ==
    pc = "done" =>
        IF cache
        THEN /\ DOMAIN persisted =
                    { PathJoin(cache_dir,
                          tasks[i][1].sat \o "_" \o isoformat(tasks[i][1].date) \o ".tif")
                      : i \in 1..Len(tasks) }
             /\ Cardinality(DOMAIN persisted) = Cardinality(DatesOf(hrefs))
             /\ \A i \in 1..Len(imgs) : imgs[i] = None
        ELSE /\ DOMAIN persisted = {}
             /\ \A i \in 1..Len(imgs) : imgs[i] # None

\* the cube package alone does what C5 says
C5_HoldsInCubePackage == pkg = "cube" => C5_CacheModePersistsOnePerDate

\* C6: whatever the pool size and the order in which the workers finish, the
\* list generate_cube returns has one result per date of the index and its
\* i-th result is the one of the i-th smallest date: every layer of the i-th
\* array was read from a row whose date has exactly i-1 smaller dates.
C6_ResultsInDateOrder ==
    pc = "done" =>
        /\ Len(imgs) = Cardinality(DatesOf(hrefs))
        /\ \A i \in 1..Len(imgs) :
               imgs[i] # None =>
                   /\ Len(imgs[i].data) >= 1
                   /\ \A j \in 1..Len(imgs[i].data) :
                          \A r \in 1..Len(hrefs) :
                              hrefs[r].href = imgs[i].data[j].src =>
                                  Cardinality({d \in DatesOf(hrefs) :
                                                  DateLess(d, hrefs[r].date)}) = i - 1

\* the pool ran two slices on two workers, the later date finished first,
\* and the arrays were returned
C6_Witness ==
    /\ pc = "done"
    /\ pkg = "cube"
    /\ cache = FALSE
    /\ processes = 2
    /\ Len(completed) = 2
    /\ completed[1].task = 2
    /\ imgs[1] # None

-----------------------------------------------------------------------------
(* Claims about date_glob.                                                 *)

\* the occurrences of a two-character token in a format expression
Occurrences(s, tok) == {i \in 1..(Len(s) - 1) : SubSeq(s, i, i + 1) = tok}

\* a format expression read once from left to right: a token becomes its run
\* of digit wildcards, any other character stays as it is
RECURSIVE Expanded(_)
Expanded(s) ==
    IF s = "" THEN ""
    ELSE IF StartsWith(s, "%Y")
         THEN "[0-9][0-9][0-9][0-9]" \o Expanded(Drop(s, 2))
    ELSE IF StartsWith(s, "%m") \/ StartsWith(s, "%d")
         THEN "[0-9][0-9]" \o Expanded(Drop(s, 2))
    ELSE At(s, 1) \o Expanded(Drop(s, 1))

\* C7: for a format expression in which %Y, %m and %d each occur at most
\* once, the pattern is the expression with %Y replaced by four "[0-9]", %m
\* and %d by two each, every other character kept, order unchanged.
C7_PatternIsTokenwiseExpansion ==
    (/\ pc = "built"
     /\ \A tok \in {"%Y", "%m", "%d"} : Cardinality(Occurrences(datestr, tok)) <= 1)
        => pattern = Expanded(datestr)

\* the object built from "%Y-%m-%d" carries the pattern of the test
C7_Witness ==
    /\ pc = "built"
    /\ datestr = "%Y-%m-%d"
    /\ pattern = "[0-9][0-9][0-9][0-9]-[0-9][0-9]-[0-9][0-9]"

-----------------------------------------------------------------------------
(* Claims about dir_to_xarr.                                               *)

\* the first substring of a file name that matches the pattern, digit for
\* digit; "" when there is none
FirstMatchInName(name, pat) ==
    LET atoms  == Atoms(pat)
        n      == Len(atoms)
        Starts == {i \in 1..(Len(name) + 1) : PrefixMatchesAt(atoms, n, name, i)}
    IN  IF Starts = {} THEN ""
        ELSE LET i0 == CHOOSE i \in Starts : \A j \in Starts : i <= j
             IN  SubSeq(name, i0, i0 + n - 1)

\* the date C8 gives a file: that substring parsed with the date expression
DateInName(path) ==
    strptime(FirstMatchInName(BaseName(path), parse_date(date_expression)),
             date_expression)

\* C8: every file the scan selects is given the date parsed from the first
\* substring of its name that matches the pattern; directory names on the
\* path and digits next to the match change nothing. So whenever each
\* selected name holds such a date, dir_to_xarr raises nothing and dates[i]
\* is that date.
C8_DateIsFirstMatchInName ==
    (/\ pc \in {"returned", "raised"}
     /\ paths # <<>>
     /\ \A i \in 1..Len(paths) : DateInName(paths[i]).ok)
        => /\ err = ""
           /\ \A i \in 1..Len(paths) : dates[i] = DateInName(paths[i]).date

\* the example of C8 itself comes out as claimed
C8_ExampleHolds ==
    (pc # "idle" /\ paths = <<"data/scene_2021-06-15_B02.tif">>)
        => err = "" /\ dates = << <<2021, 6, 15>> >>

\* C9: when no file under file_dir matches "*{pattern}*.{file_ext}",
\* dir_to_xarr raises FileNotFoundError, reads no raster and returns no
\* cube; and a cube it returns is never empty.
C9_NoFilesRaises ==
    pc \in {"returned", "raised"} =>
        /\ (\A rel \in tree :
                ~ fnmatch(BaseName(rel), parse_date(date_expression), file_ext))
               => /\ pc = "raised"
                  /\ err = "FileNotFoundError"
                  /\ opened = <<>>
                  /\ cube = <<>>
        /\ pc = "returned" => cube # <<>>

\* the directory holds files, none of them matches, and the call raised
C9_Witness ==
    /\ pc = "raised"
    /\ err = "FileNotFoundError"
    /\ tree # {}
    /\ opened = <<>>

\* the time axis ascends
TimeAscending(arr) ==
    \A i \in 1..(Len(arr) - 1) : ~ DateLess(arr[i + 1].time, arr[i].time)

\* every listed file is one slice of the cube, under the date found for it
PairingKept ==
    /\ Len(cube) = Len(paths)
    /\ \A k \in 1..Len(paths) :
           \E i \in 1..Len(cube) :
               cube[i].data = [src |-> paths[k]] /\ cube[i].time = dates[k]

TimeAxis(arr) == [i \in 1..Len(arr) |-> arr[i].time]

ListedFiles == {paths[k] : k \in 1..Len(paths)}

\* C10 (as claimed): the returned cube has its time axis ascending, each
\* slice is the file that yielded its date, and the cube is the same for
\* every order in which the matching files can be listed.
C10_SameCubeForEveryListing ==
    pc = "returned" =>
        /\ TimeAscending(cube)
        /\ PairingKept
        /\ \A o \in Orderings(ListedFiles) :
               dir_to_xarr(o, date_expression).ret = cube

\* C10 (amended): the returned cube has its time axis ascending and each
\* slice is the file that yielded its date; the time axis is the same for
\* every listing order, and the whole cube is when the dates found are
\* pairwise different; slices of one date stay in listing order.
C10_SortedPairedAndTimeAxisFixed ==
    pc = "returned" =>
        /\ TimeAscending(cube)
        /\ PairingKept
        /\ \A o \in Orderings(ListedFiles) :
               LET other == dir_to_xarr(o, date_expression).ret
               IN  /\ TimeAxis(other) = TimeAxis(cube)
                   /\ (\A i, j \in 1..Len(dates) : dates[i] = dates[j] => i = j)
                          => other = cube
        /\ \A i, j \in 1..Len(paths) :
               (i < j /\ dates[i] = dates[j]) =>
                   \E a, b \in 1..Len(cube) :
                       /\ a < b
                       /\ cube[a].data.src = paths[i]
                       /\ cube[b].data.src = paths[j]

\* two files were listed later date first, and the cube has them in date
\* order
C10_Witness ==
    /\ pc = "returned"
    /\ Len(paths) = 2
    /\ DateLess(dates[2], dates[1])
    /\ cube[1].data.src = paths[2]
    /\ cube[2].data.src = paths[1]

-----------------------------------------------------------------------------
(* Claims about the band map utilities.                                    *)

\* a dict as Python's == sees it: the mapping, whatever the insertion order
AsMapping(d) == [k \in keys(d) |-> getitem(d, k)]

\* a dict of dicts as Python's == sees it
AsNestedMapping(d) == [c \in keys(d) |-> AsMapping(getitem(d, c))]

\* within each satellite entry no canonical name is the value of two codes
UniqueCnames(bm) ==
    \A c \in keys(bm) :
        LET entry == getitem(bm, c)
        IN  \A i, j \in DOMAIN entry : i # j => entry[i][2] # entry[j][2]

\* C11: for a band map whose canonical names are unique within each
\* satellite entry, inverting twice gives back the band map; the inverse has
\* the same satellite keys, and each of its entries has exactly the canonical
\* names of the original entry as keys, each mapped to the native code that
\* mapped to it.
C11_InverseRoundTrip ==
    (pc = "inverted_twice" /\ UniqueCnames(bmap)) =>
        /\ AsNestedMapping(inv_twice) = AsNestedMapping(bmap)
        /\ keys(inv_dict) = keys(bmap)
        /\ \A c \in keys(bmap) :
               LET entry == getitem(bmap, c)
                   inv   == getitem(inv_dict, c)
               IN  /\ keys(inv) = {entry[i][2] : i \in DOMAIN entry}
                   /\ \A i \in DOMAIN entry :
                          getitem(inv, entry[i][2]) = entry[i][1]

\* both satellites present, two bands each, unique canonical names, inverted
\* twice
C11_Witness ==
    /\ pc = "inverted_twice"
    /\ UniqueCnames(bmap)
    /\ Len(bmap) = 2
    /\ \A i \in DOMAIN bmap : Len(bmap[i][2]) = 2
    /\ inv_dict # bmap
    /\ AsNestedMapping(inv_twice) = AsNestedMapping(bmap)

\* the precondition matters: a canonical name shared by two codes of one
\* entry is inverted to a single key, and the second inversion loses a code
C11_SharedCnameLosesCode ==
    (pc = "inverted_twice" /\ ~ UniqueCnames(bmap)) =>
        AsNestedMapping(inv_twice) # AsNestedMapping(bmap)

C11_SharedCnameWitness ==
    /\ pc = "inverted_twice"
    /\ ~ UniqueCnames(bmap)
    /\ \E i \in DOMAIN bmap : Len(inv_twice[i][2]) < Len(bmap[i][2])

\* the config file the call reads is there and holds a JSON object
ValidConfig ==
    /\ map_path.type \in {"str", "Path"}
    /\ resolve(PathOf(map_path)) \in DOMAIN disk
    /\ disk[resolve(PathOf(map_path))].valid
    /\ "dict" \in DOMAIN disk[resolve(PathOf(map_path))].text

\* the members of the object in the config file, in document order
ConfigMembers == disk[resolve(PathOf(map_path))].text.dict

\* C12: over a valid config file parse_bandmap raises nothing; when sat names
\* a member of the config it returns the mapping stored under that name (the
\* last one, should the name be repeated), and when sat names no member it
\* returns None.
C12_ReturnsEntryOrNone ==
    (pc # "idle" /\ ValidConfig) =>
        /\ pc = "returned" /\ err = ""
        /\ LET named == {i \in DOMAIN ConfigMembers :
                           ConfigMembers[i][1] = sat_name}
           IN  IF named = {}
               THEN sat_map = None
               ELSE sat_map = ConfigMembers[CHOOSE i \in named :
                                              \A j \in named : j <= i][2]

\* a config with two differently named members, read through a str path:
\* an unknown sat has returned None
C12_Witness ==
    /\ pc = "returned"
    /\ ValidConfig
    /\ map_path.type = "str"
    /\ Len(ConfigMembers) = 2
    /\ ConfigMembers[1][1] # ConfigMembers[2][1]
    /\ sat_name = "wrong"
    /\ sat_map = None

\* the same config, a known sat: its mapping has been returned
C12_WitnessKnownSat ==
    /\ pc = "returned"
    /\ ValidConfig
    /\ Len(ConfigMembers) = 2
    /\ ConfigMembers[2][1] = sat_name
    /\ sat_map = ConfigMembers[2][2]
    /\ sat_map # ConfigMembers[1][2]

-----------------------------------------------------------------------------
(* Claims about CubeClient.search.                                         *)

\* the call passed a non-null intersects and reached Client.search
IntersectsForwarded ==
    /\ pc = "forwarded"
    /\ "intersects" \in DOMAIN kwargs
    /\ kwargs.intersects # None

\* the geometry of the first feature of the collection the caller named
FirstFeatureGeometry ==
    LET geom == kwargs.intersects
        fc   == IF geom.type = "GeoDataFrame" THEN geom.features
                ELSE disk[resolve(geom)].features
    IN  [type |-> "dict", value |-> fc[1].geometry]

\* C13 (as claimed): whenever search is called with a non-null intersects,
\* what is forwarded to Client.search is a non-null geometry: the first
\* feature's geometry for a GeoDataFrame or a Path, the caller's own value
\* for a raw geometry mapping, never None; and a call without intersects
\* forwards its arguments unchanged.
C13_SpatialFilterNeverNone ==
    /\ IntersectsForwarded =>
           /\ forwarded.intersects # None
           /\ kwargs.intersects.type \in {"GeoDataFrame", "Path"}
                  => forwarded.intersects = FirstFeatureGeometry
           /\ kwargs.intersects.type = "dict"
                  => forwarded.intersects = kwargs.intersects
    /\ (pc # "idle" /\ "intersects" \notin DOMAIN kwargs) =>
           pc = "forwarded" /\ forwarded = kwargs

\* C13 (what the code does): a GeoDataFrame or a Path is replaced by its
\* first feature's geometry; any other intersects value, a raw geometry
\* mapping included, is replaced by None; every other argument, and every
\* argument of a call without intersects, is forwarded unchanged.
C13_OnlyFrameOrPathKeepsFilter ==
    /\ IntersectsForwarded =>
           IF kwargs.intersects.type \in {"GeoDataFrame", "Path"}
           THEN forwarded.intersects = FirstFeatureGeometry
           ELSE forwarded.intersects = None
    /\ pc = "forwarded" =>
           /\ DOMAIN forwarded = DOMAIN kwargs
           /\ \A k \in DOMAIN kwargs \ {"intersects"} : forwarded[k] = kwargs[k]
    /\ (pc # "idle" /\ "intersects" \notin DOMAIN kwargs) =>
           pc = "forwarded" /\ forwarded = kwargs

\* the call of cubed/download.py: collections and a raw geometry mapping;
\* None has been forwarded in its place
C13_RawMappingBecomesNone ==
    /\ pc = "forwarded"
    /\ DOMAIN kwargs = {"collections", "intersects"}
    /\ kwargs.collections = <<"HLSL30.v2.0", "HLSS30.v2.0">>
    /\ kwargs.intersects = [type |-> "dict",
                            value |-> [type |-> "Polygon",
                                       coordinates |-> "region"]]
    /\ forwarded.intersects = None

\* a Path to a collection of two features: the first one's geometry forwarded
C13_PathWitness ==
    /\ IntersectsForwarded
    /\ kwargs.intersects.type = "Path"
    /\ forwarded.intersects = [type |-> "dict",
                               value |-> [type |-> "Polygon",
                                          coordinates |-> "island"]]

====
